---- MODULE Spec2Model ----
(***************************************************************************)
(* State-machine model of the cherrana payment servers.                    *)
(*                                                                         *)
(* The repository holds four near-duplicate Express servers:               *)
(*   "server"   src/server.js                                              *)
(*   "part000"  src/unnamed/part_000                                       *)
(*   "part001a" src/unnamed/part_001, lines 1-416                          *)
(*   "part001b" src/unnamed/part_001, lines 418-920                        *)
(* One of them runs (variable variant).  A request is received, its        *)
(* middleware and the handler's synchronous prefix run up to the first     *)
(* await on the payment processor or to the response; each answer of the   *)
(* processor (a value or a thrown error) resumes the handler.              *)
(***************************************************************************)
EXTENDS Integers, Sequences, FiniteSets, TLC

VARIABLES
  variant,       \* which server file runs
  isProduction,  \* NODE_ENV === 'production'
  pc,            \* "idle" | "await" (a processor call is pending) | "done"
  req,           \* the request being handled
  calls,         \* processor calls issued for this request, in order
  returned,      \* what the processor answered to each call, in order
  resp,          \* the HTTP response sent for this request
  env,           \* handler locals that live across an await
  fault,         \* the exception the server's own code threw for this request
  now,           \* Date.now(), in milliseconds
  parked,        \* handlers suspended at an await while another request runs
  log,           \* the records the logger wrote while handling this request
  hits           \* the payment limiter's count for the client in this window

vars ==
  <<variant, isProduction, pc, req, calls, returned, resp, env, fault, now,
    parked, log, hits>>

(***************************************************************************)
(* Bounds of the model.                                                    *)
(***************************************************************************)
MaxAmountLen == 3
MaxJunkLen == 2
MaxParked == 1
MaxClock == 1

(***************************************************************************)
(* JavaScript values.  A number is n / 10^e; strings are sequences of      *)
(* one-character strings.                                                  *)
(***************************************************************************)
Undef == [t |-> "undefined", n |-> 0, e |-> 0, s |-> <<>>]
Null == [t |-> "null", n |-> 0, e |-> 0, s |-> <<>>]
NaN == [t |-> "NaN", n |-> 0, e |-> 0, s |-> <<>>]
Dec(n, e) == [t |-> "number", n |-> n, e |-> e, s |-> <<>>]
Num(n) == Dec(n, 0)
Str(s) == [t |-> "string", n |-> 0, e |-> 0, s |-> s]
\* An object with the fields o; the other values have no field o.
Obj(o) == [t |-> "object", n |-> 0, e |-> 0, s |-> <<>>, o |-> o]

IsUndef(v) == v.t = "undefined"
IsNull(v) == v.t = "null"
IsNaN(v) == v.t = "NaN"
IsNum(v) == v.t = "number"
IsStr(v) == v.t = "string"

Digits == <<"0", "1", "2", "3", "4", "5", "6", "7", "8", "9">>
IsDigit(c) == \E i \in 1..10 : Digits[i] = c
DigitVal(c) == (CHOOSE i \in 1..10 : Digits[i] = c) - 1
DigitChar(d) == Digits[d + 1]

Pow10(k) == IF k = 0 THEN 1
            ELSE IF k = 1 THEN 10
            ELSE IF k = 2 THEN 100
            ELSE IF k = 3 THEN 1000
            ELSE IF k = 4 THEN 10000
            ELSE IF k = 5 THEN 100000
            ELSE 1000000

Drop(s, k) == SubSeq(s, k + 1, Len(s))
Take(s, k) == SubSeq(s, 1, k)

\* Number of leading characters of s that satisfy the StrWhiteSpaceChar production.
LeadingSpaces(s) ==
  CHOOSE k \in 0..Len(s) :
    /\ \A i \in 1..k : s[i] = " "
    /\ (k = Len(s) \/ s[k + 1] # " ")

TrailingSpaces(s) ==
  CHOOSE k \in 0..Len(s) :
    /\ \A i \in (Len(s) - k + 1)..Len(s) : s[i] = " "
    /\ (k = Len(s) \/ s[Len(s) - k] # " ")

\* String.prototype.trim
Trim(s) ==
  IF LeadingSpaces(s) = Len(s) THEN <<>>
  ELSE SubSeq(s, LeadingSpaces(s) + 1, Len(s) - TrailingSpaces(s))

LeadingDigits(s) ==
  CHOOSE k \in 0..Len(s) :
    /\ \A i \in 1..k : IsDigit(s[i])
    /\ (k = Len(s) \/ ~IsDigit(s[k + 1]))

RECURSIVE DigitsToNat(_)
DigitsToNat(ds) ==
  IF ds = <<>> THEN 0
  ELSE 10 * DigitsToNat(Take(ds, Len(ds) - 1)) + DigitVal(ds[Len(ds)])

\* Number -> String for the integers the model prints (ToString of an integer).
RECURSIVE NatToDigits(_)
NatToDigits(n) ==
  IF n < 10 THEN <<DigitChar(n)>>
  ELSE NatToDigits(n \div 10) \o <<DigitChar(n % 10)>>

\* ToString of a JavaScript value, as parseInt and parseFloat apply it to
\* their argument.
ToStringJS(v) ==
  IF IsStr(v) THEN v.s
  ELSE IF IsUndef(v) THEN <<"u", "n", "d", "e", "f", "i", "n", "e", "d">>
  ELSE IF IsNull(v) THEN <<"n", "u", "l", "l">>
  ELSE IF IsNaN(v) THEN <<"N", "a", "N">>
  ELSE LET a == IF v.n < 0 THEN -v.n ELSE v.n
           ip == NatToDigits(a \div Pow10(v.e))
           fr == a % Pow10(v.e)
           frd == NatToDigits(fr)
           pad == [i \in 1..(v.e - Len(frd)) |-> "0"]
       IN (IF v.n < 0 THEN <<"-">> ELSE <<>>) \o ip
            \o (IF v.e = 0 THEN <<>> ELSE <<".">> \o pad \o frd)

\* parseInt(string) with the default radix, on the characters the model uses
\* (no "0x" prefix): leading white space, an optional sign, the longest
\* prefix of decimal digits; NaN when that prefix is empty.
ParseIntChars(s0) ==
  LET s1 == Drop(s0, LeadingSpaces(s0))
      neg == s1 # <<>> /\ s1[1] = "-"
      sgn == s1 # <<>> /\ s1[1] \in {"-", "+"}
      s2 == IF sgn THEN Drop(s1, 1) ELSE s1
      k == LeadingDigits(s2)
  IN IF k = 0 THEN NaN
     ELSE Num((IF neg THEN -1 ELSE 1) * DigitsToNat(Take(s2, k)))

ParseInt(v) == ParseIntChars(ToStringJS(v))

\* parseFloat(string) on the characters the model uses (no exponent part, no
\* "Infinity"): leading white space, an optional sign, digits, an optional
\* "." and digits; NaN when there is no digit at all.
ParseFloatChars(s0) ==
  LET s1 == Drop(s0, LeadingSpaces(s0))
      neg == s1 # <<>> /\ s1[1] = "-"
      sgn == s1 # <<>> /\ s1[1] \in {"-", "+"}
      s2 == IF sgn THEN Drop(s1, 1) ELSE s1
      k == LeadingDigits(s2)
      ip == Take(s2, k)
      s3 == Drop(s2, k)
      dot == s3 # <<>> /\ s3[1] = "."
      s4 == IF dot THEN Drop(s3, 1) ELSE <<>>
      j == LeadingDigits(s4)
      fp == Take(s4, j)
  IN IF k = 0 /\ j = 0 THEN NaN
     ELSE Dec((IF neg THEN -1 ELSE 1) * DigitsToNat(ip \o fp), j)

ParseFloat(v) == ParseFloatChars(ToStringJS(v))

\* The values Math.round(x * 100) can take.  x * 100 is a binary
\* floating-point product: when the decimal product lies exactly halfway
\* between two integers the product may fall on either side of the tie, and
\* both roundings are kept; otherwise the result is the exact rounding.
RoundTimes100(x) ==
  IF ~IsNum(x) THEN {NaN}
  ELSE LET num == x.n * 100
           den == Pow10(x.e)
           up == (2 * num + den) \div (2 * den)
           tie == (2 * num) % den = 0 /\ num % den # 0
       IN IF tie THEN {Num(up - 1), Num(up)} ELSE {Num(up)}

\* !v
Falsy(v) ==
  \/ IsUndef(v)
  \/ IsNull(v)
  \/ IsNaN(v)
  \/ (IsNum(v) /\ v.n = 0)
  \/ (IsStr(v) /\ v.s = <<>>)

\* Relational comparison of a number with an integer; false on NaN.
LessThan(v, k) == IsNum(v) /\ v.n < k * Pow10(v.e)
AtMost(v, k) == IsNum(v) /\ v.n <= k * Pow10(v.e)

LowerChar(c) ==
  CASE c = "U" -> "u"
    [] c = "S" -> "s"
    [] c = "D" -> "d"
    [] c = "E" -> "e"
    [] c = "R" -> "r"
    [] OTHER -> c

\* String.prototype.toLowerCase
\* A conversion that keeps the case of every character.
SameCase(s) == s

ToLowerCase(s) == [i \in 1..Len(s) |-> LowerChar(s[i])]

\* String.prototype.split with a one-character separator.
RECURSIVE Split(_, _)
Split(s, sep) ==
  IF \A i \in 1..Len(s) : s[i] # sep THEN <<s>>
  ELSE LET k == CHOOSE i \in 1..Len(s) :
                  s[i] = sep /\ \A j \in 1..(i - 1) : s[j] # sep
       IN <<Take(s, k - 1)>> \o Split(Drop(s, k), sep)

\* cardNumber.replace(/\s/g, '')
RECURSIVE RemoveSpaces(_)
RemoveSpaces(s) ==
  IF s = <<>> THEN <<>>
  ELSE (IF s[1] = " " THEN <<>> ELSE <<s[1]>>) \o RemoveSpaces(Drop(s, 1))

(***************************************************************************)
(* The payment processor.  Opaque tokens (ids, secrets, origins, messages) *)
(* are TLA+ strings; a token carried in a request body is the one-symbol   *)
(* JavaScript string Str(<<token>>).                                       *)
(***************************************************************************)
NoValue == "undefined"

PaymentIntentIds == {"pi_1", "pi_2"}
PaymentMethodIds == {"pm_1", "pm_2"}
SecretOf(id) == <<id, "secret">>

\* Statuses of a payment intent as the processor reports them.
IntentStatuses ==
  {"requires_payment_method", "requires_confirmation", "requires_action",
   "processing", "requires_capture", "canceled", "succeeded"}

PaymentIntent(id, status) ==
  [id |-> id, status |-> status, client_secret |-> SecretOf(id),
   next_action |-> IF status = "requires_action" THEN "use_stripe_sdk" ELSE "null"]

\* Errors a processor call rejects with: error.type, error.code,
\* error.decline_code and error.message.
StripeError(type, code, decline, message) ==
  [type |-> type, code |-> code, decline_code |-> decline, message |-> message]

StripeErrors ==
  {StripeError("StripeCardError", "card_declined", "insufficient_funds",
               "Your card has insufficient funds."),
   StripeError("StripeCardError", "card_declined", "generic_decline",
               "Your card was declined."),
   StripeError("StripeCardError", "expired_card", NoValue,
               "Your card has expired."),
   StripeError("StripeInvalidRequestError", "payment_intent_authentication_failure",
               NoValue, "The provided PaymentMethod has failed authentication."),
   StripeError("StripeInvalidRequestError", "resource_missing", NoValue,
               "No such payment_intent"),
   StripeError("StripeConnectionError", NoValue, NoValue,
               "An error occurred with our connection to Stripe.")}

\* An exception raised by the handler's own code.
TypeError(message) == StripeError("TypeError", NoValue, NoValue, message)
NoError == StripeError(NoValue, NoValue, NoValue, NoValue)

IsDecline(error) == error.decline_code # NoValue

(***************************************************************************)
(* Outcomes of a run of handler code: a response, or a processor call the  *)
(* handler awaits.                                                         *)
(***************************************************************************)
Respond(status, body) ==
  [k |-> "respond", status |-> status, type |-> "json", body |-> body,
   threw |-> NoError, logs |-> <<>>]
RespondText(status, text) ==
  [k |-> "respond", status |-> status, type |-> "text", body |-> [text |-> text],
   threw |-> NoError, logs |-> <<>>]
Await(op, args, locals) ==
  [k |-> "await", call |-> [op |-> op, args |-> args], env |-> locals,
   threw |-> NoError, logs |-> <<>>]

\* logger.info / warn / error (message, { ... }): the record written, with
\* the values of its fields.
LogRecord(level, message, values) ==
  [level |-> level, message |-> message, values |-> values \ {Undef}]

\* The outcome of code that wrote records before it went on to outcome.
Logged(records, outcome) == [outcome EXCEPT !.logs = records \o @]

\* What JSON keeps of an object: the fields that are not undefined.
BodyKeys(body) == {f \in DOMAIN body : ~IsUndef(body[f])}
BodyValues(body) == {body[f] : f \in BodyKeys(body)}

\* The outcome of handler code that threw error and was answered by outcome.
Thrown(error, outcome) == [outcome EXCEPT !.threw = error]

\* res.json(body) without res.status(): Express answers 200.
Json(body) == Respond(200, body)

(***************************************************************************)
(* POST /create-payment-intent                                             *)
(***************************************************************************)
MinAmountCents == 50

\* const { amount = 57.48, currency = 'usd' } = req.body
AmountOf(body) == IF IsUndef(body.amount) THEN Dec(5748, 2) ELSE body.amount
CurrencyOf(body) ==
  IF IsUndef(body.currency) THEN Str(<<"u", "s", "d">>) ELSE body.currency

\* catch (error) of every create-payment-intent handler
CreateCatch(error) ==
  Logged(<<LogRecord("error", "Payment processing error",
                     {Str(<<error.message>>)})>>,
         Respond(400, [error |-> error.message, success |-> FALSE,
                       details |-> "Payment processing failed"]))

AmountRequired ==
  Respond(400, [error |-> "Amount is required", success |-> FALSE,
                missingFields |-> <<"amount">>])

\* isNaN(amountInCents) || amountInCents < 50
BelowMinimum(cents) == IsNaN(cents) \/ LessThan(cents, MinAmountCents)

\* isNaN(amountInCents) || amountInCents <= 0
NotPositive(cents) == IsNaN(cents) \/ AtMost(cents, 0)

\* currency.toLowerCase() throws unless currency is a string.
CurrencyFault(currency) ==
  TypeError(IF IsNull(currency)
            THEN "Cannot read properties of null (reading 'toLowerCase')"
            ELSE "currency.toLowerCase is not a function")

\* idempotencyKey || `pi_${Date.now()}`
IdempotencyKey(body, clock) ==
  IF Falsy(body.idempotencyKey) THEN Str(<<"pi_">> \o NatToDigits(clock))
  ELSE body.idempotencyKey

ServerCreatePaymentIntent(body) ==
  LET amount == AmountOf(body)
      currency == CurrencyOf(body)
      After(cents) ==
        IF BelowMinimum(cents)
        THEN Respond(400, [error |-> "Invalid amount. Minimum payment is $0.50.",
                           success |-> FALSE])
        ELSE IF ~IsStr(currency)
        THEN Thrown(CurrencyFault(currency), CreateCatch(CurrencyFault(currency)))
        ELSE Await("paymentIntents.create",
                   [amount |-> cents.n, currency |-> ToLowerCase(currency.s),
                    idempotencyKey |-> Undef],
                   [amountInCents |-> cents.n, currency |-> currency.s])
      received ==
        LogRecord("info", "Received payment request",
                  {Str(<<"/create-payment-intent">>)} \cup BodyValues(body))
  IN IF Falsy(amount) THEN {Logged(<<received>>, AmountRequired)}
     ELSE {Logged(<<received>>, After(cents)) :
             cents \in RoundTimes100(ParseFloat(amount))}

Part000CreatePaymentIntent(body) == ServerCreatePaymentIntent(body)

Part001aCreatePaymentIntent(body) ==
  LET amount == AmountOf(body)
      currency == CurrencyOf(body)
      entry ==
        <<LogRecord("info", "Received payment request",
                    {Str(<<"/create-payment-intent">>)}
                      \cup {Str(<<f>>) : f \in BodyKeys(body)}),
          LogRecord("info", "Extracted payment values", {amount, currency})>>
      After(cents) ==
        IF NotPositive(cents)
        THEN Logged(<<LogRecord("warn", "Invalid amount provided",
                                {amount, cents})>>,
                    Respond(400, [error |-> "Invalid amount. Please enter a valid number.",
                                  success |-> FALSE]))
        ELSE IF ~IsStr(currency)
        THEN Thrown(CurrencyFault(currency), CreateCatch(CurrencyFault(currency)))
        ELSE Await("paymentIntents.create",
                   [amount |-> cents.n, currency |-> ToLowerCase(currency.s),
                    idempotencyKey |-> Undef],
                   [amountInCents |-> cents.n, currency |-> currency.s])
  IN IF Falsy(amount)
     THEN {Logged(entry \o <<LogRecord("warn", "Missing required field: amount",
                                       {})>>,
                  AmountRequired)}
     ELSE {Logged(entry, After(cents)) :
             cents \in RoundTimes100(ParseFloat(amount))}

\* The requiredFields table of part_001, in its order: name and label.
RequiredFields ==
  <<<<"amount", "Amount">>, <<"name", "Full Name">>, <<"email", "Email">>,
    <<"street", "Street Address">>, <<"city", "City">>,
    <<"state", "State/Province">>, <<"zip", "ZIP/Postal Code">>,
    <<"country", "Country">>>>

\* value === undefined || value === null || value === ''
IsMissing(v) == IsUndef(v) \/ IsNull(v) \/ (IsStr(v) /\ v.s = <<>>)

RequiredValue(body, field) ==
  IF field = "amount" THEN AmountOf(body) ELSE body[field]

\* requiredFields.filter(...): the missing entries, in table order.
RECURSIVE MissingFrom(_, _)
MissingFrom(body, i) ==
  IF i > Len(RequiredFields) THEN <<>>
  ELSE (IF IsMissing(RequiredValue(body, RequiredFields[i][1]))
        THEN <<RequiredFields[i]>> ELSE <<>>) \o MissingFrom(body, i + 1)

MissingFields(body) == MissingFrom(body, 1)

Part001bCreatePaymentIntent(body, clock) ==
  LET amount == AmountOf(body)
      currency == CurrencyOf(body)
      missing == MissingFields(body)
      entry ==
        <<LogRecord("info", "Received payment request",
                    {Str(<<"/create-payment-intent">>)}
                      \cup {Str(<<f>>) : f \in BodyKeys(body)}),
          LogRecord("info", "Extracted payment values",
                    {body.name, body.email, body.street, body.city, body.state,
                     body.zip, body.country, amount, currency})>>
      After(cents) ==
        IF NotPositive(cents)
        THEN Logged(<<LogRecord("warn", "Invalid amount provided",
                                {amount, cents})>>,
                    Respond(400, [error |-> "Invalid amount. Please enter a valid number.",
                                  success |-> FALSE]))
        ELSE IF ~IsStr(currency)
        THEN Thrown(CurrencyFault(currency), CreateCatch(CurrencyFault(currency)))
        ELSE Await("paymentIntents.create",
                   [amount |-> cents.n, currency |-> ToLowerCase(currency.s),
                    idempotencyKey |-> IdempotencyKey(body, clock)],
                   [amountInCents |-> cents.n, currency |-> currency.s])
  IN IF missing # <<>>
     THEN {Logged(entry \o
                    <<LogRecord("warn", "Missing required fields",
                                {Str(<<missing[i][1]>>) : i \in 1..Len(missing)})>>,
                  Respond(400, [error |-> <<"Missing required fields: ",
                                            [i \in 1..Len(missing) |-> missing[i][2]]>>,
                                success |-> FALSE,
                                missingFields |->
                                  [i \in 1..Len(missing) |-> missing[i][1]]]))}
     ELSE {Logged(entry, After(cents)) :
             cents \in RoundTimes100(ParseFloat(amount))}

\* The handler after stripe.paymentIntents.create resolved with paymentIntent.
ServerCreated(locals, paymentIntent) ==
  Logged(<<LogRecord("info", "Payment intent created successfully",
                     {Str(<<paymentIntent.id>>), Num(locals.amountInCents),
                      Str(locals.currency), Str(<<paymentIntent.status>>)})>>,
         Json([success |-> TRUE, clientSecret |-> paymentIntent.client_secret,
               paymentIntentId |-> paymentIntent.id,
               amount |-> locals.amountInCents, currency |-> locals.currency,
               message |-> "Payment intent created successfully"]))

Part001Created(locals, paymentIntent) ==
  Logged(<<LogRecord("info", "Payment intent created successfully",
                     {Str(<<paymentIntent.id>>), Num(locals.amountInCents),
                      Str(locals.currency), Str(<<paymentIntent.status>>)})>>,
         Json([success |-> TRUE, clientSecret |-> paymentIntent.client_secret,
               paymentIntentId |-> paymentIntent.id,
               message |-> "Payment intent created successfully"]))

(***************************************************************************)
(* POST /confirm-payment and POST /confirm-payment-intent                  *)
(***************************************************************************)
\* `${req.headers.origin}/success`; an absent header prints as "undefined".
ReturnUrl(origin) == <<origin, "/success">>

Plus(v, k) == IF IsNum(v) THEN Num(v.n + k) ELSE NaN

MissingIds ==
  Respond(400, [error |-> "Payment intent ID and payment method ID are required",
                success |-> FALSE])
MissingIntentId ==
  Respond(400, [error |-> "Payment intent ID is required", success |-> FALSE])

\* logger.info('Payment confirmation status', { paymentIntentId, status })
ConfirmationStatus(r, paymentIntent) ==
  LogRecord("info", "Payment confirmation status",
            {r.body.paymentIntentId, Str(<<paymentIntent.status>>)})

\* logger.error('Payment confirmation error', { error, paymentIntentId })
ConfirmationError(r, error) ==
  LogRecord("error", "Payment confirmation error",
            {Str(<<error.message>>), r.body.paymentIntentId})

\* A catch block that issues the confirm call again instead of answering.
RetryConfirm(error) ==
  Await("paymentIntents.confirm", [id |-> Str(<<"pi_1">>)], Undef)

\* catch (error) of /confirm-payment-intent and of part_001's /confirm-payment
ConfirmCatch(error) ==
  Respond(400, [error |-> error.message, success |-> FALSE,
                details |-> "Payment confirmation failed"])

\* catch (error) of part_000's /confirm-payment
Part000ConfirmCatch(error) ==
  LET errorMessage ==
        IF error.type = "StripeCardError" THEN error.message
        ELSE IF error.code = "payment_intent_authentication_failure"
        THEN "Authentication failed. Please try again."
        ELSE "Payment confirmation failed"
  IN Respond(400, [error |-> errorMessage, success |-> FALSE,
                   details |-> error.message,
                   code |-> IF error.code = NoValue THEN "unknown_error"
                            ELSE error.code])

Part000ConfirmPayment(r) ==
  IF Falsy(r.body.paymentIntentId) \/ Falsy(r.body.paymentMethodId)
  THEN MissingIds
  ELSE Await("paymentIntents.confirm",
             [id |-> r.body.paymentIntentId,
              payment_method |-> r.body.paymentMethodId,
              return_url |-> ReturnUrl(r.origin)],
             Undef)

\* part_000: the response object built from the confirmed intent.
Part000Confirmed(paymentIntent) ==
  LET status == paymentIntent.status
      base == [success |-> status # "requires_payment_method",
               status |-> status,
               paymentIntentId |-> paymentIntent.id,
               requiresAction |-> status = "requires_action",
               clientSecret |-> paymentIntent.client_secret]
  IN Json(IF status = "requires_action"
          THEN base @@ [message |-> "Additional authentication required",
                        nextAction |-> paymentIntent.next_action]
          ELSE IF status = "succeeded"
          THEN base @@ [message |-> "Payment completed successfully"]
          ELSE IF status = "processing"
          THEN base @@ [message |-> "Payment is processing"]
          ELSE IF status = "requires_payment_method"
          THEN base @@ [message |->
                 "Payment failed. Please try a different payment method."]
          ELSE base)

ServerConfirmPaymentIntent(r) ==
  IF Falsy(r.body.paymentIntentId) \/ Falsy(r.body.paymentMethodId)
  THEN MissingIds
  ELSE Await("paymentIntents.confirm",
             IF Falsy(r.body.billingDetails)
             THEN [id |-> r.body.paymentIntentId,
                   payment_method |-> r.body.paymentMethodId]
             ELSE [id |-> r.body.paymentIntentId,
                   payment_method |-> r.body.paymentMethodId,
                   billing_details |-> r.body.billingDetails],
             Undef)

\* server.js and part_001 (second server): every confirmed intent is answered
\* the same way.
ServerConfirmed(paymentIntent) ==
  Json([success |-> TRUE, status |-> paymentIntent.status,
        paymentIntent |-> paymentIntent])

SplitFault(expiry) ==
  TypeError(IF IsUndef(expiry)
            THEN "Cannot read properties of undefined (reading 'split')"
            ELSE IF IsNull(expiry)
            THEN "Cannot read properties of null (reading 'split')"
            ELSE "expiry.split is not a function")

ReplaceFault(cardNumber) ==
  TypeError(IF IsUndef(cardNumber)
            THEN "Cannot read properties of undefined (reading 'replace')"
            ELSE IF IsNull(cardNumber)
            THEN "Cannot read properties of null (reading 'replace')"
            ELSE "cardNumber.replace is not a function")

\* const [a, b] = array: the element, or undefined past the end.
ElementOr(seq, i) == IF i <= Len(seq) THEN seq[i] ELSE Undef

\* part_001 (first server): const [expMonth, expYearPartial] = expiry.split('/')
\* exp_month: parseInt(expMonth), exp_year: parseInt(expYearPartial) + 2000
Part001aExpiry(expiry) ==
  LET parts == Split(expiry, "/")
      strs == [i \in 1..Len(parts) |-> Str(parts[i])]
      expMonth == ElementOr(strs, 1)
      expYearPartial == ElementOr(strs, 2)
  IN [exp_month |-> ParseInt(expMonth),
      exp_year |-> Plus(ParseInt(expYearPartial), 2000)]

\* part_001 (second server): the callback mapped over expiry.split('/')
Part001bExpiryPart(part) ==
  Plus(ParseIntChars(Trim(part)),
       IF Len(part) = 2 /\ LessThan(ParseIntChars(part), 50) THEN 2000 ELSE 1900)

Part001bExpiry(expiry) ==
  LET parts == Split(expiry, "/")
      mapped == [i \in 1..Len(parts) |-> Part001bExpiryPart(parts[i])]
  IN [exp_month |-> ElementOr(mapped, 1), exp_year |-> ElementOr(mapped, 2)]

BillingDetailsOf(body) ==
  [name |-> body.name, email |-> body.email,
   address |-> [line1 |-> body.street, city |-> body.city, state |-> body.state,
                postal_code |-> body.zip, country |-> body.country]]

Part001aConfirmPayment(r) ==
  LET b == r.body
      exp == Part001aExpiry(b.expiry.s)
  IN IF Falsy(b.paymentIntentId) THEN MissingIntentId
     ELSE IF ~IsStr(b.expiry)
     THEN Thrown(SplitFault(b.expiry),
                 Logged(<<ConfirmationError(r, SplitFault(b.expiry))>>,
                        ConfirmCatch(SplitFault(b.expiry))))
     ELSE IF ~IsStr(b.cardNumber)
     THEN Thrown(ReplaceFault(b.cardNumber),
                 Logged(<<ConfirmationError(r, ReplaceFault(b.cardNumber))>>,
                        ConfirmCatch(ReplaceFault(b.cardNumber))))
     ELSE Await("paymentMethods.create",
                [number |-> RemoveSpaces(b.cardNumber.s),
                 exp_month |-> exp.exp_month, exp_year |-> exp.exp_year,
                 cvc |-> b.cvc, billing_details |-> BillingDetailsOf(b)],
                Undef)

\* A PIN test that admits any run of four to six digits.
PinFourToSix(pin) ==
  LET s == ToStringJS(pin)
  IN Len(s) \in 4..6 /\ \A i \in 1..Len(s) : IsDigit(s[i])

\* /^\d{4}$|^\d{6}$/.test(pin)
PinMatches(pin) ==
  LET s == ToStringJS(pin)
  IN Len(s) \in {4, 6} /\ \A i \in 1..Len(s) : IsDigit(s[i])

Part001bConfirmPayment(r) ==
  LET b == r.body
      exp == Part001bExpiry(b.expiry.s)
  IN IF Falsy(b.paymentIntentId) THEN MissingIntentId
     ELSE IF ~Falsy(b.pin) /\ ~PinMatches(b.pin)
     THEN Respond(400, [error |-> "PIN must be 4 or 6 digits"])
     ELSE IF ~IsStr(b.expiry)
     THEN Thrown(SplitFault(b.expiry),
                 Logged(<<ConfirmationError(r, SplitFault(b.expiry))>>,
                        ConfirmCatch(SplitFault(b.expiry))))
     ELSE IF ~IsStr(b.cardNumber)
     THEN Thrown(ReplaceFault(b.cardNumber),
                 Logged(<<ConfirmationError(r, ReplaceFault(b.cardNumber))>>,
                        ConfirmCatch(ReplaceFault(b.cardNumber))))
     ELSE Await("paymentMethods.create",
                [number |-> RemoveSpaces(b.cardNumber.s),
                 exp_month |-> exp.exp_month, exp_year |-> exp.exp_year,
                 cvc |-> b.cvc,
                 billing_details |-> IF Falsy(b.billing_address) THEN Undef
                                     ELSE BillingDetailsOf(b.billing_address.o)],
                Undef)

\* A continuation that confirms with the paymentMethodId of the request body
\* in place of the id the processor returned.
ConfirmWithRequestMethod(r, paymentMethod) ==
  Await("paymentIntents.confirm",
        [id |-> r.body.paymentIntentId,
         payment_method |-> r.body.paymentMethodId,
         return_url |-> ReturnUrl(r.origin)],
        Undef)

\* After stripe.paymentMethods.create resolved with paymentMethod.
Part001aMethodCreated(r, paymentMethod) ==
  Await("paymentIntents.confirm",
        [id |-> r.body.paymentIntentId, payment_method |-> Str(<<paymentMethod.id>>),
         return_url |-> ReturnUrl(r.origin)],
        Undef)

Part001bMethodCreated(r, paymentMethod) ==
  Await("paymentIntents.confirm",
        [id |-> r.body.paymentIntentId, payment_method |-> Str(<<paymentMethod.id>>)],
        Undef)

\* A response mapper that answers every status as a failed payment.
AnsweredAsFailure(paymentIntent) ==
  Respond(400, [success |-> FALSE, status |-> paymentIntent.status,
                error |-> "Payment failed. Please try a different payment method.",
                paymentIntent |-> paymentIntent])

\* A response mapper that announces the authentication step and leaves the
\* client secret out.
AnsweredWithoutSecret(paymentIntent) ==
  Json([success |-> TRUE, status |-> paymentIntent.status,
        message |-> "Additional authentication required",
        next_action |-> paymentIntent.next_action])

\* part_001 (first server): the response chosen by paymentIntent.status
Part001aConfirmed(paymentIntent) ==
  IF paymentIntent.status = "succeeded"
  THEN Json([success |-> TRUE, status |-> "succeeded",
             message |-> "Payment completed successfully",
             paymentIntent |-> paymentIntent])
  ELSE IF paymentIntent.status = "requires_action"
  THEN Json([success |-> TRUE, status |-> "requires_action",
             message |-> "Additional authentication required",
             next_action |-> paymentIntent.next_action,
             clientSecret |-> paymentIntent.client_secret])
  ELSE IF paymentIntent.status = "requires_payment_method"
  THEN Respond(400, [success |-> FALSE, status |-> "requires_payment_method",
                     error |-> "Payment failed. Please try a different payment method.",
                     paymentIntent |-> paymentIntent])
  ELSE Json([success |-> TRUE, status |-> paymentIntent.status,
             message |-> "Payment processing",
             paymentIntent |-> paymentIntent])

(***************************************************************************)
(* GET /payment-intent/:id and POST /create-payment-method                 *)
(***************************************************************************)
\* part_000: req.params.id is carried in the request's paymentIntentId.
Part000RetrievePaymentIntent(r) ==
  Await("paymentIntents.retrieve", [id |-> r.body.paymentIntentId], Undef)

\* The fields of the intent that the model keeps: id and status.
Part000Retrieved(paymentIntent) ==
  Json([success |-> TRUE, status |-> paymentIntent.status,
        paymentIntent |-> [id |-> paymentIntent.id,
                           status |-> paymentIntent.status]])

RetrieveCatch(error) ==
  Respond(400, [error |-> error.message, success |-> FALSE])

CreateMethodCatch(error) ==
  Logged(<<LogRecord("error", "Payment method creation error",
                     {Str(<<error.message>>)})>>,
         Respond(400, [error |-> error.message, success |-> FALSE,
                       details |-> "Payment method creation failed"]))

ServerCreatePaymentMethod(r) ==
  LET b == r.body
  IN IF Falsy(b.cardNumber) \/ Falsy(b.expMonth) \/ Falsy(b.expYear)
          \/ Falsy(b.cvc)
     THEN Respond(400, [error |-> "Card details are required",
                        success |-> FALSE])
     ELSE IF ~IsStr(b.cardNumber)
     THEN Thrown(ReplaceFault(b.cardNumber),
                 CreateMethodCatch(ReplaceFault(b.cardNumber)))
     ELSE Await("paymentMethods.create",
                [number |-> RemoveSpaces(b.cardNumber.s),
                 exp_month |-> ParseInt(b.expMonth),
                 exp_year |-> ParseInt(b.expYear),
                 cvc |-> b.cvc, billing_details |-> b.billingDetails],
                Undef)

ServerMethodCreated(paymentMethod) ==
  Json([success |-> TRUE, paymentMethodId |-> paymentMethod.id])

(***************************************************************************)
(* POST /webhook                                                           *)
(***************************************************************************)
WebhookRoute == "POST /webhook"

\* The body parsers a webhook request passes, in the order they run: the
\* application-wide express.json(), then the route's express.raw().
WebhookParsers == <<"express.json", "express.raw">>

\* What req.body holds after the parsers ran.  A parser that reads the body
\* marks the request as parsed and every later parser skips it, so the first
\* parser decides.
BodySeenBy(parsers) ==
  IF parsers[1] = "express.raw" THEN "raw" ELSE "parsed"

\* stripe.webhooks.constructEvent(payload, sig, secret): the event when sig
\* signs the raw bytes of payload, an exception otherwise.  A parsed object
\* is not the bytes that were signed.
SignatureError ==
  StripeError("StripeSignatureVerificationError", NoValue, NoValue,
              "No signatures found matching the expected signature")
ConstructEvent(payload, sig, body) ==
  IF payload = "raw" /\ sig = "valid"
  THEN [ok |-> TRUE, event |-> [type |-> body.type]]
  ELSE [ok |-> FALSE, error |-> SignatureError]

\* The handler: verification, then a log line per event type, then the
\* acknowledgement.
Webhook(r) ==
  LET verified == ConstructEvent(BodySeenBy(WebhookParsers), r.signature, r.body)
  IN  IF ~verified.ok
      THEN Thrown(verified.error,
                  Logged(<<LogRecord("error",
                                     "Webhook signature verification failed",
                                     {Str(<<verified.error.message>>)})>>,
                         RespondText(400, <<"Webhook Error: ",
                                            verified.error.message>>)))
      ELSE Json([received |-> TRUE])

(***************************************************************************)
(* POST /test-form                                                         *)
(***************************************************************************)
TestFormRoute == "POST /test-form"

\* The handler logs the body it received and echoes it.
TestForm(r) ==
  Logged(<<LogRecord("info", "Form submission test",
                     BodyValues(r.body) \cup {Str(<<"application/json">>)})>>,
         Json([success |-> TRUE,
               message |-> "Form data received successfully",
               receivedData |-> r.body]))

(***************************************************************************)
(* Middleware, routing and the error handlers.                             *)
(***************************************************************************)
RenderUrl == "https://charannapos.onrender.com"

\* allowedOrigins when CORS_ORIGINS is not set.
AllowedOrigins(v) ==
  IF v = "server" \/ v = "part000"
  THEN {RenderUrl, "http://localhost:8080", "http://localhost:5500",
        "http://localhost:3000"}
  ELSE {RenderUrl, "http://localhost:8080", "http://localhost:5500"}

\* origin: (origin, callback) => ... ; an absent Origin header is admitted.
CorsAllows(v, origin) == origin = NoValue \/ origin \in AllowedOrigins(v)

\* The error handler registered right after cors().
CorsRejected(v) ==
  IF v = "server"
  THEN Respond(403, [error |-> "CORS policy violation", success |-> FALSE])
  ELSE Respond(403, [error |-> "CORS policy violation"])

\* app.use('*', ...)
NotFound == Respond(404, [error |-> "Endpoint not found"])

\* app.use((error, req, res, next) => ...): details is undefined in
\* production, and JSON drops an undefined field.
GlobalErrorHandler(production, error) ==
  IF production
  THEN Respond(500, [error |-> "Internal server error", success |-> FALSE])
  ELSE Respond(500, [error |-> "Internal server error", success |-> FALSE,
                     details |-> error.message])

\* What express.json() passes to next(err) for a body it cannot parse.
BodyParseError ==
  StripeError("SyntaxError", NoValue, NoValue, "Unexpected token in JSON")

CreateRoute == "POST /create-payment-intent"
ConfirmRoute == "POST /confirm-payment"
ConfirmIntentRoute == "POST /confirm-payment-intent"
UnknownRoute == "GET /no-such-endpoint"
RetrieveRoute == "GET /payment-intent/:id"
CreateMethodRoute == "POST /create-payment-method"

\* The routes of each server that the model covers.
HasRoute(v, route) ==
  \/ route = CreateRoute
  \/ (route = ConfirmRoute /\ v \in {"part000", "part001a", "part001b"})
  \/ (route = ConfirmIntentRoute /\ v = "server")
  \/ (route = RetrieveRoute /\ v = "part000")
  \/ (route = CreateMethodRoute /\ v = "server")
  \/ (route = WebhookRoute /\ v \in {"server", "part001b"})
  \/ route = TestFormRoute

\* The handler of the route, run to its response or its first await.
RunHandler(v, r, clock) ==
  IF r.route = CreateRoute
  THEN (IF v = "server" THEN ServerCreatePaymentIntent(r.body)
        ELSE IF v = "part000" THEN Part000CreatePaymentIntent(r.body)
        ELSE IF v = "part001a" THEN Part001aCreatePaymentIntent(r.body)
        ELSE Part001bCreatePaymentIntent(r.body, clock))
  ELSE IF r.route = RetrieveRoute THEN {Part000RetrievePaymentIntent(r)}
  ELSE IF r.route = CreateMethodRoute THEN {ServerCreatePaymentMethod(r)}
  ELSE IF r.route = WebhookRoute THEN {Webhook(r)}
  ELSE IF r.route = TestFormRoute THEN {TestForm(r)}
  ELSE IF v = "server" THEN {ServerConfirmPaymentIntent(r)}
  ELSE IF v = "part000" THEN {Part000ConfirmPayment(r)}
  ELSE IF v = "part001a" THEN {Part001aConfirmPayment(r)}
  ELSE {Part001bConfirmPayment(r)}

\* rateLimit({ windowMs: 15 * 60 * 1000, max: 10, message: {...} })
LimiterMax == 10

\* app.use('/create-payment-intent', paymentLimiter) and, in three of the
\* servers, app.use('/confirm-payment', paymentLimiter).  A mount path covers
\* the path itself and what follows it after a "/", so /confirm-payment does
\* not cover /confirm-payment-intent.
Limited(v, route) ==
  \/ route = CreateRoute
  \/ (route = ConfirmRoute /\ v \in {"server", "part000", "part001a"})

\* The limiter counts a request that reaches it: one that cors admitted and
\* whose body parsed.
Counted(v, r) == CorsAllows(v, r.origin) /\ ~r.malformed /\ Limited(v, r.route)

TooManyRequests ==
  Respond(429, [error |-> "Too many payment attempts, please try again later.",
                success |-> FALSE])

\* The middleware chain: cors, the body parser, the limiter, the route or the
\* 404 handler.  count is the limiter's count before this request.
Handle(v, production, r, clock, count) ==
  IF ~CorsAllows(v, r.origin)
  THEN {IF v = "server"
        THEN Logged(<<LogRecord("warn", "CORS policy violation attempt",
                                {Str(<<r.origin>>)})>>,
                    CorsRejected(v))
        ELSE CorsRejected(v)}
  ELSE IF r.malformed
  THEN {Thrown(BodyParseError,
               Logged(<<LogRecord("error", "Unhandled error",
                                  {Str(<<BodyParseError.message>>),
                                   Str(<<r.route>>)})>>,
                      GlobalErrorHandler(production, BodyParseError)))}
  ELSE IF Limited(v, r.route) /\ count + 1 > LimiterMax THEN {TooManyRequests}
  ELSE IF HasRoute(v, r.route) THEN RunHandler(v, r, clock)
  ELSE {NotFound}

\* The handler resumed with the value its awaited call resolved to.
Resume(v, r, locals, call, value) ==
  IF call.op = "paymentIntents.create"
  THEN (IF v \in {"server", "part000"} THEN ServerCreated(locals, value)
        ELSE Part001Created(locals, value))
  ELSE IF call.op = "paymentMethods.create"
  THEN (IF v = "server" THEN ServerMethodCreated(value)
        ELSE IF v = "part001a" THEN Part001aMethodCreated(r, value)
        ELSE Part001bMethodCreated(r, value))
  ELSE IF call.op = "paymentIntents.retrieve" THEN Part000Retrieved(value)
  ELSE Logged(<<ConfirmationStatus(r, value)>>,
              IF v = "part000" THEN Part000Confirmed(value)
              ELSE IF v = "part001a" THEN Part001aConfirmed(value)
              ELSE ServerConfirmed(value))

\* The handler's catch block, entered when its awaited call rejected.
Catch(v, r, error) ==
  IF r.route = CreateRoute THEN CreateCatch(error)
  ELSE IF r.route = RetrieveRoute THEN RetrieveCatch(error)
  ELSE IF r.route = CreateMethodRoute THEN CreateMethodCatch(error)
  ELSE Logged(<<ConfirmationError(r, error)>>,
              IF v = "part000" THEN Part000ConfirmCatch(error)
              ELSE ConfirmCatch(error))

\* The first symbol of a string value: the token it carries.
TokenOf(v) == IF IsStr(v) /\ v.s # <<>> THEN v.s[1] ELSE NoValue

\* The values the processor can resolve a call with.
Results(call) ==
  IF call.op = "paymentIntents.create"
  THEN {PaymentIntent(id, "requires_payment_method") : id \in PaymentIntentIds}
  ELSE IF call.op = "paymentMethods.create"
  THEN {[id |-> id] : id \in PaymentMethodIds}
  ELSE {PaymentIntent(TokenOf(call.args.id), st) : st \in IntentStatuses}

(***************************************************************************)
(* Requests.                                                               *)
(***************************************************************************)
NoOrigin == NoValue
EvilOrigin == "https://evil.example"

EmptyBody ==
  [amount |-> Undef, currency |-> Undef, name |-> Undef, email |-> Undef,
   street |-> Undef, city |-> Undef, state |-> Undef, zip |-> Undef,
   country |-> Undef, idempotencyKey |-> Undef, paymentIntentId |-> Undef,
   paymentMethodId |-> Undef, billingDetails |-> Undef, cardNumber |-> Undef,
   expiry |-> Undef, cvc |-> Undef, pin |-> Undef, billing_address |-> Undef,
   expMonth |-> Undef, expYear |-> Undef, type |-> Undef]

\* A body with every billing field of the payment form filled in.
FormBody ==
  [EmptyBody EXCEPT !.name = Str(<<"Ada">>), !.email = Str(<<"ada@example.com">>),
                    !.street = Str(<<"1 Main St">>), !.city = Str(<<"Nairobi">>),
                    !.state = Str(<<"NBO">>), !.zip = Str(<<"00100">>),
                    !.country = Str(<<"KE">>)]

Request(route, origin, body) ==
  [route |-> route, origin |-> origin, malformed |-> FALSE, body |-> body,
   signature |-> NoValue]

StringsUpTo(chars, n) == UNION {[1..k -> chars] : k \in 0..n}

AmountChars == {"0", "5", "9", ".", "-", "a"}

AmountInputs ==
  {Undef, Null, Num(0), Num(1), Dec(1, 1), Dec(5, 1), Dec(5748, 2)}
    \cup {Str(s) : s \in StringsUpTo(AmountChars, MaxAmountLen)}
    \cup {Str(<<"5", "7", ".", "4", "8">>), Str(<<"0", ".", "1", "0">>),
          Str(<<"0", ".", "4", "9">>), Str(<<"0", ".", "5", "0">>),
          Str(<<" ", "1">>)}

CurrencyInputs ==
  {Undef, Null, Num(840), Str(<<"u", "s", "d">>), Str(<<"U", "S", "D">>),
   Str(<<"E", "u", "r">>)}

CreateRequests ==
  {Request(CreateRoute, NoOrigin, [FormBody EXCEPT !.amount = a]) :
     a \in AmountInputs}
    \cup {Request(CreateRoute, RenderUrl,
                  [FormBody EXCEPT !.amount = a, !.currency = c]) :
            a \in {Undef, Str(<<"0", ".", "1", "0">>)}, c \in CurrencyInputs}
    \cup {Request(CreateRoute, NoOrigin, [EmptyBody EXCEPT !.amount = a]) :
            a \in {Undef, Str(<<>>), Str(<<"5">>), Str(<<"0", ".", "1", "0">>)}}

Origins == {NoOrigin, RenderUrl, "http://localhost:3000", EvilOrigin}

Address ==
  Obj([name |-> Str(<<"Ada">>), email |-> Str(<<"ada@example.com">>),
       street |-> Str(<<"1 Main St">>), city |-> Str(<<"Nairobi">>),
       state |-> Str(<<"NBO">>), zip |-> Str(<<"00100">>),
       country |-> Str(<<"KE">>)])

IntentIdInputs == {Undef, Str(<<"pi_1">>)}
MethodIdInputs == {Undef, Str(<<"pm_9">>)}
CardNumberInputs == {Undef, Str(<<"4", "2", " ", "4", "2">>)}
PinInputs ==
  {Undef, Num(1234), Str(<<"1", "2", "3", "4">>), Str(<<"1", "2", "3", "4", "5">>),
   Str(<<"1", "2", "3", "4", "5", "6">>), Str(<<"1", "2", "a", "4">>),
   Str(<<>>), Num(0)}

\* A few expiry values of each kind.
FewExpiries ==
  {Undef, Num(925), Str(<<"0", "9", "/", "2", "5">>),
   Str(<<"1", "3", "/", "2", "5">>), Str(<<"0", "9", "/", "2", "0", "2", "5">>),
   Str(<<"a", "b">>)}

\* Requests of the client-tokenized mode, sent to either confirm route.
TokenizedRequests ==
  {Request(route, o, [EmptyBody EXCEPT !.paymentIntentId = pi,
                                        !.paymentMethodId = pm,
                                        !.billingDetails = bd]) :
     route \in {ConfirmRoute, ConfirmIntentRoute}, o \in Origins,
     pi \in IntentIdInputs, pm \in MethodIdInputs, bd \in {Undef, Address}}

\* Requests of the server-side card mode; the last ones also carry a
\* paymentMethodId.
CardRequests ==
  {Request(ConfirmRoute, o, [EmptyBody EXCEPT !.paymentIntentId = pi,
                                               !.cardNumber = cn,
                                               !.expiry = ex,
                                               !.cvc = Str(<<"1", "2", "3">>),
                                               !.pin = pin,
                                               !.billing_address = ba]) :
     o \in {NoOrigin, RenderUrl}, pi \in IntentIdInputs, cn \in CardNumberInputs,
     ex \in FewExpiries, pin \in PinInputs, ba \in {Undef, Address}}
    \cup {Request(ConfirmRoute, RenderUrl,
                  [EmptyBody EXCEPT !.paymentIntentId = Str(<<"pi_1">>),
                                    !.paymentMethodId = Str(<<"pm_9">>),
                                    !.cardNumber = cn,
                                    !.expiry = Str(<<"0", "9", "/", "2", "5">>),
                                    !.cvc = Str(<<"1", "2", "3">>)]) :
            cn \in CardNumberInputs}

ConfirmRequests == TokenizedRequests \cup CardRequests

\* Requests that no handler reads: an unknown route, and a body that is not
\* JSON.
OtherRequests ==
  {Request(UnknownRoute, o, EmptyBody) : o \in Origins}
    \cup {[Request(route, NoOrigin, EmptyBody) EXCEPT !.malformed = TRUE] :
            route \in {CreateRoute, ConfirmRoute, ConfirmIntentRoute}}

\* The requests of the confirm specification.
AllRequests == ConfirmRequests \cup OtherRequests

\* Expiry strings "MM/YY": months 00..19, years with every tens digit.
DigitChars == {Digits[i] : i \in 1..10}
MonthStrings == {<<a, b>> : a \in {"0", "1"}, b \in DigitChars}
YearStrings == {<<a, b>> : a \in DigitChars, b \in {"0", "5", "9"}}
LongYearStrings ==
  {<<"1", "9", "9", "9">>, <<"2", "0", "2", "5">>, <<"2", "0", "4", "9">>,
   <<"2", "0", "5", "0">>}
JunkChars == {"/", "a", "1", " "}

ExpiryInputs ==
  {Undef, Null, Num(925)}
    \cup {Str(m \o <<"/">> \o y) : m \in MonthStrings, y \in YearStrings}
    \cup {Str(m \o <<"/">> \o y) :
            m \in {<<"0", "1">>, <<"0", "9">>, <<"1", "2">>, <<"1", "3">>},
            y \in LongYearStrings}
    \cup {Str(s) : s \in StringsUpTo(JunkChars, MaxJunkLen)}

\* Requests of the server-side card mode that differ in their expiry only.
ExpiryRequests ==
  {Request(ConfirmRoute, NoOrigin,
           [EmptyBody EXCEPT !.paymentIntentId = Str(<<"pi_1">>),
                             !.cardNumber = Str(<<"4", "2", " ", "4", "2">>),
                             !.expiry = ex,
                             !.cvc = Str(<<"1", "2", "3">>),
                             !.pin = Str(<<"1", "2", "3", "4">>),
                             !.billing_address = Address]) :
     ex \in ExpiryInputs}

\* const ALL_COUNTRIES: the list served by GET /api/countries.
ALL_COUNTRIES(v) ==
  IF v = "part001b"
  THEN {
        "AC", "AD", "AE", "AF", "AG", "AI", "AL", "AM", "AO", "AQ",
        "AR", "AT", "AU", "AW", "AX", "AZ", "BA", "BB", "BD", "BE",
        "BF", "BG", "BH", "BI", "BJ", "BL", "BM", "BN", "BO", "BQ",
        "BR", "BS", "BT", "BV", "BW", "BY", "BZ", "CA", "CD", "CF",
        "CG", "CH", "CI", "CK", "CL", "CM", "CN", "CO", "CR", "CV",
        "CW", "CY", "CZ", "DE", "DJ", "DK", "DM", "DO", "DZ", "EC",
        "EE", "EG", "EH", "ER", "ES", "ET", "FI", "FJ", "FK", "FO",
        "FR", "GA", "GB", "GD", "GE", "GF", "GG", "GH", "GI", "GL",
        "GM", "GN", "GP", "GQ", "GR", "GS", "GT", "GU", "GW", "GY",
        "HK", "HN", "HR", "HT", "HU", "ID", "IE", "IL", "IM", "IN",
        "IO", "IQ", "IS", "IT", "JE", "JM", "JO", "JP", "KE", "KG",
        "KH", "KI", "KM", "KN", "KR", "KW", "KY", "KZ", "LA", "LB",
        "LC", "LI", "LK", "LR", "LS", "LT", "LU", "LV", "LY", "MA",
        "MC", "MD", "ME", "MF", "MG", "MK", "ML", "MM", "MN", "MO",
        "MQ", "MR", "MS", "MT", "MU", "MV", "MW", "MX", "MY", "MZ",
        "NA", "NC", "NE", "NG", "NI", "NL", "NO", "NP", "NR", "NU",
        "NZ", "OM", "PA", "PE", "PF", "PG", "PH", "PK", "PL", "PM",
        "PN", "PR", "PS", "PT", "PY", "QA", "RE", "RO", "RS", "RU",
        "RW", "SA", "SB", "SC", "SD", "SE", "SG", "SH", "SI", "SJ",
        "SK", "SL", "SM", "SN", "SO", "SR", "SS", "ST", "SV", "SX",
        "SY", "SZ", "TA", "TC", "TD", "TF", "TG", "TH", "TJ", "TK",
        "TL", "TM", "TN", "TO", "TR", "TT", "TV", "TW", "TZ", "UA",
        "UG", "US", "UY", "UZ", "VA", "VC", "VE", "VG", "VI", "VN",
        "VU", "WF", "WS", "XK", "YE", "YT", "ZA", "ZM", "ZW"}
  ELSE {"US", "CA", "GB", "AU", "DE", "FR", "JP"}

\* A request body's billing form with the given fields.
BillingBody(amount, name, state, zip, country) ==
  [FormBody EXCEPT !.amount = amount, !.name = name, !.state = state,
                   !.zip = zip, !.country = country]

BillingStates == {Undef, Null, Str(<<>>), Str(<<"NBO">>)}
BillingCountries ==
  {Undef, Str(<<>>), Str(<<"KE">>), Str(<<"US">>), Str(<<"ZZ">>)}

\* billing_address of a card-mode confirm request, with the given country
\* and state.
AddressIn(country, state) ==
  Obj([name |-> Str(<<"Ada">>), email |-> Str(<<"ada@example.com">>),
       street |-> Str(<<"1 Main St">>), city |-> Str(<<"Nairobi">>),
       state |-> state, zip |-> Str(<<"00100">>), country |-> country])

\* Requests that range over the billing fields: the payment form sent to
\* POST /create-payment-intent, and card-mode requests to POST
\* /confirm-payment with a billing address.
BillingRequests ==
  {Request(CreateRoute, NoOrigin, BillingBody(a, n, st, z, c)) :
     a \in {Undef, Str(<<>>), Str(<<"a", "b", "c">>), Str(<<"0">>),
            Str(<<"5", "7", ".", "4", "8">>)},
     n \in {Undef, Str(<<>>), Str(<<"Ada">>)}, st \in BillingStates,
     z \in {Undef, Str(<<"00100">>)}, c \in BillingCountries}
    \cup {Request(ConfirmRoute, NoOrigin,
                  [EmptyBody EXCEPT !.paymentIntentId = Str(<<"pi_1">>),
                                    !.cardNumber = Str(<<"4", "2", " ", "4", "2">>),
                                    !.expiry = Str(<<"0", "9", "/", "2", "5">>),
                                    !.cvc = Str(<<"1", "2", "3">>),
                                    !.billing_address = AddressIn(c, st)]) :
            c \in BillingCountries, st \in BillingStates}

\* Payment forms that differ in their idempotencyKey and in the payer.
KeyRequests ==
  {Request(CreateRoute, NoOrigin,
           [FormBody EXCEPT !.amount = Str(<<"5", "7", ".", "4", "8">>),
                            !.name = n, !.idempotencyKey = k]) :
     n \in {Str(<<"Ada">>), Str(<<"Bob">>)},
     k \in {Undef, Str(<<>>), Str(<<"key-1">>), Str(<<"key-2">>)}}

\* Requests to GET /payment-intent/:id and to POST /create-payment-method.
LookupRequests ==
  {Request(RetrieveRoute, o, [EmptyBody EXCEPT !.paymentIntentId = pi]) :
     o \in {NoOrigin, EvilOrigin}, pi \in {Str(<<"pi_1">>), Str(<<"pi_2">>)}}
    \cup {Request(CreateMethodRoute, NoOrigin,
                  [EmptyBody EXCEPT !.cardNumber = cn, !.expMonth = m,
                                    !.expYear = Str(<<"2", "0", "2", "5">>),
                                    !.cvc = cvc]) :
            cn \in {Undef, Num(4242), Str(<<"4", "2", " ", "4", "2">>)},
            m \in {Undef, Num(9), Str(<<"0", "9">>), Str(<<"a">>)},
            cvc \in {Undef, Str(<<"1", "2", "3">>)}}

\* Webhook deliveries: the event types the handlers name and one they do
\* not, with a signature that matches the body, one that does not, and none.
EventTypes ==
  {"payment_intent.succeeded", "payment_intent.payment_failed",
   "payment_intent.requires_action", "charge.refunded"}
WebhookRequests ==
  {[Request(WebhookRoute, NoOrigin, [EmptyBody EXCEPT !.type = Str(<<t>>)])
      EXCEPT !.signature = sig] :
       t \in EventTypes, sig \in {"valid", "invalid", NoValue}}

\* The payment form with its card fields, posted to the test endpoint and to
\* the create endpoint.
CardFormRequests ==
  {Request(route, NoOrigin,
           [FormBody EXCEPT !.amount = Str(<<"5", "7", ".", "4", "8">>),
                            !.cardNumber = Str(<<"4", "2", " ", "4", "2">>),
                            !.expiry = Str(<<"0", "9", "/", "2", "5">>),
                            !.cvc = Str(<<"1", "2", "3">>),
                            !.pin = pin]) :
     route \in {TestFormRoute, CreateRoute},
     pin \in {Undef, Str(<<"1", "2", "3", "4">>)}}

\* Requests to every route.
EveryRequest ==
  CreateRequests \cup KeyRequests \cup AllRequests \cup LookupRequests
    \cup WebhookRequests \cup CardFormRequests

NoReq == Request("", NoOrigin, EmptyBody)
NoResp == [status |-> 0, type |-> "none", body |-> [none |-> TRUE]]

(***************************************************************************)
(* The state machine.                                                      *)
(***************************************************************************)
Init ==
  /\ variant \in {"server", "part000", "part001a", "part001b"}
  /\ isProduction \in BOOLEAN
  /\ pc = "idle"
  /\ req = NoReq
  /\ calls = <<>>
  /\ returned = <<>>
  /\ resp = NoResp
  /\ env = Undef
  /\ fault = NoError
  /\ now = 0
  /\ parked = <<>>
  /\ log = <<>>
  /\ hits = 0

\* The effect of an outcome: the response is sent, or the call is issued and
\* the handler waits for it.
Settle(o) ==
  IF o.k = "respond"
  THEN /\ pc' = "done"
       /\ resp' = [status |-> o.status, type |-> o.type, body |-> o.body]
       /\ calls' = calls
       /\ env' = Undef
       /\ fault' = o.threw
       /\ log' = log \o o.logs
  ELSE /\ pc' = "await"
       /\ resp' = NoResp
       /\ calls' = Append(calls, o.call)
       /\ env' = o.env
       /\ fault' = o.threw
       /\ log' = log \o o.logs

\* A request arrives while no other is being handled.
Receive(requests) ==
  /\ pc = "idle"
  /\ \E r \in requests :
       \E o \in Handle(variant, isProduction, r, now, hits) :
         /\ req' = r
         /\ returned' = <<>>
         /\ pc' = IF o.k = "respond" THEN "done" ELSE "await"
         /\ resp' = IF o.k = "respond"
                    THEN [status |-> o.status, type |-> o.type, body |-> o.body]
                    ELSE NoResp
         /\ calls' = IF o.k = "respond" THEN <<>> ELSE <<o.call>>
         /\ env' = IF o.k = "respond" THEN Undef ELSE o.env
         /\ fault' = o.threw
         /\ log' = o.logs
         /\ hits' = IF Counted(variant, r) /\ hits <= LimiterMax
                    THEN hits + 1 ELSE hits
  /\ UNCHANGED <<variant, isProduction, now, parked>>

\* The pending processor call resolves and the handler runs on.
ProcessorReturns ==
  /\ pc = "await"
  /\ \E value \in Results(calls[Len(calls)]) :
       /\ returned' = Append(returned, [ok |-> TRUE, value |-> value])
       /\ Settle(Resume(variant, req, env, calls[Len(calls)], value))
  /\ UNCHANGED <<variant, isProduction, req, now, parked, hits>>

\* The pending processor call rejects and the handler's catch block runs.
ProcessorThrows ==
  /\ pc = "await"
  /\ \E error \in StripeErrors :
       /\ returned' = Append(returned, [ok |-> FALSE, value |-> error])
       /\ Settle(Catch(variant, req, error))
  /\ UNCHANGED <<variant, isProduction, req, now, parked, hits>>

\* The response has been sent: the handler is over and the server is ready
\* for the next request.
Complete ==
  /\ pc = "done"
  /\ pc' = "idle"
  /\ req' = NoReq
  /\ calls' = <<>>
  /\ returned' = <<>>
  /\ resp' = NoResp
  /\ env' = Undef
  /\ fault' = NoError
  /\ log' = <<>>
  /\ UNCHANGED <<variant, isProduction, now, parked, hits>>

\* The event loop leaves the handler suspended at its await and is free to
\* serve another request.
Park ==
  /\ pc = "await"
  /\ Len(parked) < MaxParked
  /\ parked' = Append(parked, [req |-> req, calls |-> calls,
                                returned |-> returned, env |-> env,
                                log |-> log])
  /\ pc' = "idle"
  /\ req' = NoReq
  /\ calls' = <<>>
  /\ returned' = <<>>
  /\ resp' = NoResp
  /\ env' = Undef
  /\ fault' = NoError
  /\ log' = <<>>
  /\ UNCHANGED <<variant, isProduction, now, hits>>

\* The event loop turns back to a suspended handler, whose call is still
\* pending.
Unpark ==
  /\ pc = "idle"
  /\ \E i \in 1..Len(parked) :
       /\ req' = parked[i].req
       /\ calls' = parked[i].calls
       /\ returned' = parked[i].returned
       /\ env' = parked[i].env
       /\ log' = parked[i].log
       /\ parked' = [j \in 1..(Len(parked) - 1) |->
                       IF j < i THEN parked[j] ELSE parked[j + 1]]
  /\ pc' = "await"
  /\ resp' = NoResp
  /\ fault' = NoError
  /\ UNCHANGED <<variant, isProduction, now, hits>>

\* A millisecond passes.
Tick ==
  /\ now < MaxClock
  /\ now' = now + 1
  /\ UNCHANGED <<variant, isProduction, pc, req, calls, returned, resp, env,
                 fault, parked, log, hits>>

\* The limiter's window of 15 minutes ends and its count starts again.
WindowElapses ==
  /\ hits > 0
  /\ hits' = 0
  /\ UNCHANGED <<variant, isProduction, pc, req, calls, returned, resp, env,
                 fault, now, parked, log>>

ReceiveCreate == Receive(CreateRequests)

NextCreate == ReceiveCreate \/ ProcessorReturns \/ ProcessorThrows \/ Complete

\* The servers under requests to POST /create-payment-intent.
SpecCreate == Init /\ [][NextCreate]_vars

ReceiveConfirm == Receive(AllRequests)

Next == ReceiveConfirm \/ ProcessorReturns \/ ProcessorThrows \/ Complete

\* The servers under requests to the confirm routes, to an unknown route and
\* with an unparsable body.
Spec == Init /\ [][Next]_vars

ReceiveExpiry == Receive(ExpiryRequests)

NextExpiry == ReceiveExpiry \/ ProcessorReturns \/ ProcessorThrows \/ Complete

\* The servers under card-mode requests to POST /confirm-payment that range
\* over the expiry field.
SpecExpiry == Init /\ [][NextExpiry]_vars

ReceiveBilling == Receive(BillingRequests)

NextBilling == ReceiveBilling \/ ProcessorReturns \/ ProcessorThrows \/ Complete

\* The servers under requests that range over the billing fields.
SpecBilling == Init /\ [][NextBilling]_vars

ReceiveKeyed == Receive(KeyRequests)

NextKeys ==
  \/ ReceiveKeyed
  \/ ProcessorReturns
  \/ ProcessorThrows
  \/ Complete
  \/ Park
  \/ Unpark
  \/ Tick

\* The servers under payment forms that arrive while earlier ones still wait
\* for the processor, as the clock advances.
SpecKeys == Init /\ [][NextKeys]_vars

ReceiveAny == Receive(EveryRequest)

NextAll == ReceiveAny \/ ProcessorReturns \/ ProcessorThrows \/ Complete

\* The servers under requests to every route.
SpecAll == Init /\ [][NextAll]_vars

\* The same servers when nothing obliges the processor to answer.  A handler
\* suspended at an await has no timer of its own and the client is built
\* without a timeout option, so the only steps that resume it are the two
\* answers of the processor; a handler that has answered always finishes.
SpecSilent == Init /\ [][NextAll]_vars /\ WF_vars(Complete)

NextLimited ==
  \/ ReceiveAny
  \/ ProcessorReturns
  \/ ProcessorThrows
  \/ Complete
  \/ WindowElapses

\* The servers under requests to every route, over several windows of the
\* limiter.
SpecLimited == Init /\ [][NextLimited]_vars

(***************************************************************************)
(* Properties.                                                             *)
(***************************************************************************)
Answered == pc = "done"
LastCall == calls[Len(calls)]
LastReturned == returned[Len(returned)]

\* The awaited call named op resolved with a value and the handler answered.
Resolved(op) ==
  /\ Answered
  /\ returned # <<>>
  /\ Len(returned) = Len(calls)
  /\ LastCall.op = op
  /\ LastReturned.ok

\* The confirm call resolved with an intent of this status.
ConfirmReturned(status) ==
  /\ Resolved("paymentIntents.confirm")
  /\ LastReturned.value.status = status

HasField(body, f) == f \in DOMAIN body
SaysSuccess(b) == HasField(resp.body, "success") /\ resp.body.success = b

\* The values the request's amount can convert to.
ConvertedAmounts == RoundTimes100(ParseFloat(AmountOf(req.body)))

InvalidAmountAnswers ==
  {"Invalid amount. Minimum payment is $0.50.",
   "Invalid amount. Please enter a valid number.", "Amount is required"}

\* The request was rejected by the check of its amount.
RejectedForAmount ==
  /\ Answered
  /\ calls = <<>>
  /\ resp.status = 400
  /\ resp.body.error \in InvalidAmountAnswers

\* C1: on POST /create-payment-intent, in every variant, an amount that
\* converts to at least 50 minor units passes the amount check, and an amount
\* that is non-numeric, not positive or converts to fewer than 50 minor units
\* is answered 400 with success:false and no create call reaches the
\* processor.
C1_MinimumAmountEveryVariant ==
  (req.route = CreateRoute /\ pc # "idle" /\ fault = NoError
     /\ (variant = "part001b" => MissingFields(req.body) = <<>>)) =>
    /\ (\A c \in ConvertedAmounts : ~IsNaN(c) /\ ~LessThan(c, MinAmountCents))
         => ~RejectedForAmount
    /\ (\A c \in ConvertedAmounts : IsNaN(c) \/ LessThan(c, MinAmountCents))
         => (calls = <<>> /\ resp.status = 400 /\ SaysSuccess(FALSE))

\* C2: whenever the confirm call returns an intent with status
\* requires_payment_method, the confirm endpoint of every variant answers 400
\* with success:false.
C2_RequiresPaymentMethodIs400 ==
  ConfirmReturned("requires_payment_method") =>
    (resp.status = 400 /\ SaysSuccess(FALSE))

\* C3: whenever the confirm call returns an intent with status succeeded, the
\* confirm endpoint of every variant answers 200 with success:true.
C3_SucceededIs200 ==
  ConfirmReturned("succeeded") => (resp.status = 200 /\ SaysSuccess(TRUE))

C3_Witness ==
  /\ ConfirmReturned("succeeded")
  /\ resp.status = 200
  /\ variant = "part001a"
  /\ Len(calls) = 2

\* The body carries the token, at its top level or inside the intent it
\* includes.
CarriesSecret(body, secret) ==
  \/ (HasField(body, "clientSecret") /\ body.clientSecret = secret)
  \/ (HasField(body, "paymentIntent") /\ body.paymentIntent.client_secret = secret)

\* C4: whenever the confirm call returns status requires_action, the confirm
\* endpoint answers 200 with success:true and a body that carries the
\* intent's client secret.
C4_RequiresActionCarriesSecret ==
  ConfirmReturned("requires_action") =>
    /\ resp.status = 200
    /\ SaysSuccess(TRUE)
    /\ CarriesSecret(resp.body, LastReturned.value.client_secret)

C4_Witness ==
  /\ ConfirmReturned("requires_action")
  /\ variant = "part001a"
  /\ HasField(resp.body, "clientSecret")
  /\ resp.body.clientSecret = SecretOf("pi_1")

\* The last processor call rejected with a decline that carries a decline
\* code, and the handler answered.
Declined ==
  /\ Answered
  /\ returned # <<>>
  /\ ~LastReturned.ok
  /\ IsDecline(LastReturned.value)

\* C5: when a processor call fails with a decline that carries a decline
\* code, the endpoint answers 400 with success:false, an error message and a
\* declineCode equal to the processor's decline code.
C5_DeclineCodeSurfaced ==
  Declined =>
    /\ resp.status = 400
    /\ SaysSuccess(FALSE)
    /\ HasField(resp.body, "error")
    /\ HasField(resp.body, "declineCode")
    /\ resp.body.declineCode = LastReturned.value.decline_code

\* The fault's message appears in the body.
LeaksMessage(body, error) ==
  \/ (HasField(body, "error") /\ body.error = error.message)
  \/ (HasField(body, "details") /\ body.details = error.message)

\* C6: an unexpected internal fault raised while handling a request (a
\* TypeError on a missing field) is answered 500 with success:false, and
\* its message is absent from the body in production.
C6_InternalFaultIs500 ==
  (Answered /\ fault.type = "TypeError") =>
    /\ resp.status = 500
    /\ SaysSuccess(FALSE)
    /\ (isProduction => ~LeaksMessage(resp.body, fault))

\* C7: every response with a 4xx or 5xx status has a JSON body with an error
\* field and success:false.
C7_ErrorEnvelope ==
  (Answered /\ resp.status >= 400) =>
    /\ resp.type = "json"
    /\ HasField(resp.body, "error")
    /\ SaysSuccess(FALSE)

\* The servers whose POST /confirm-payment takes raw card fields.
CardVariants == {"part001a", "part001b"}

\* Answers that would name the expiry as the rejected field.
InvalidExpiryAnswers == {"InvalidExpiry", "Invalid expiry"}

AllDigits(s) == \A i \in 1..Len(s) : IsDigit(s[i])

\* The expiry reads MM/Y..Y with MM in 01..12 and a year of yearLen digits.
WellFormedExpiry(expiry, yearLen) ==
  /\ IsStr(expiry)
  /\ Len(expiry.s) = 3 + yearLen
  /\ expiry.s[3] = "/"
  /\ AllDigits(Take(expiry.s, 2))
  /\ AllDigits(Drop(expiry.s, 3))
  /\ DigitsToNat(Take(expiry.s, 2)) \in 1..12

MonthOf(expiry) == DigitsToNat(Take(expiry.s, 2))
YearOf(expiry) == DigitsToNat(Drop(expiry.s, 3))

\* A card-mode request whose card has been sent to the processor.
CardSent ==
  /\ req.route = ConfirmRoute
  /\ calls # <<>>
  /\ calls[1].op = "paymentMethods.create"

\* C8: for an expiry "MM/YY" with MM in 01..12, the card that POST
\* /confirm-payment sends to the processor has exp_month = MM and
\* exp_year = 2000 + YY.
C8_TwoDigitYearIs2000s ==
  (CardSent /\ WellFormedExpiry(req.body.expiry, 2)) =>
    /\ calls[1].args.exp_month = Num(MonthOf(req.body.expiry))
    /\ calls[1].args.exp_year = Num(2000 + YearOf(req.body.expiry))

\* C9: for an expiry "MM/YYYY" with MM in 01..12, POST /confirm-payment
\* accepts the expiry and the card it sends to the processor has
\* exp_month = MM and exp_year = YYYY.
C9_FourDigitYearKept ==
  (req.route = ConfirmRoute /\ pc # "idle"
     /\ variant \in CardVariants
     /\ WellFormedExpiry(req.body.expiry, 4)) =>
    /\ CardSent
    /\ calls[1].args.exp_month = Num(MonthOf(req.body.expiry))
    /\ calls[1].args.exp_year = Num(YearOf(req.body.expiry))

\* C10: a card-mode request to POST /confirm-payment whose expiry is missing,
\* unparsable or has a month outside 1..12 is answered 400 with an error
\* that names the expiry, and no call reaches the processor.
C10_InvalidExpiryRejected ==
  (req.route = ConfirmRoute /\ pc # "idle"
     /\ variant \in CardVariants
     /\ ~WellFormedExpiry(req.body.expiry, 2)
     /\ ~WellFormedExpiry(req.body.expiry, 4)) =>
    /\ calls = <<>>
    /\ resp.status = 400
    /\ resp.body.error \in InvalidExpiryAnswers

\* The request passed cors and the body parser and reached its route.
Handled == CorsAllows(variant, req.origin) /\ ~req.malformed

\* The server whose POST /confirm-payment reads a pin.
PinVariant == "part001b"
PinAnswer == "PIN must be 4 or 6 digits"

\* The pin, printed, is exactly four or exactly six decimal digits.
FourOrSixDigits(pin) ==
  /\ Len(ToStringJS(pin)) \in {4, 6}
  /\ AllDigits(ToStringJS(pin))

\* A confirm request handled by the server that reads a pin.
PinRequest ==
  variant = PinVariant /\ req.route = ConfirmRoute /\ pc # "idle" /\ Handled

RejectedForPin ==
  /\ Answered
  /\ calls = <<>>
  /\ resp.status = 400
  /\ resp.body.error = PinAnswer

BillingOf(field) ==
  IF req.route = CreateRoute THEN req.body[field]
  ELSE IF req.body.billing_address.t = "object"
  THEN req.body.billing_address.o[field]
  ELSE Undef

BillingRequest ==
  pc # "idle" /\ Handled /\ req.route \in {CreateRoute, ConfirmRoute}

\* The country is given and is not in the list of supported countries.
Unsupported(country) ==
  /\ IsStr(country)
  /\ country.s # <<>>
  /\ TokenOf(country) \notin ALL_COUNTRIES(variant)

\* The fields the 400 response lists as violated.
ListedFields ==
  IF HasField(resp.body, "missingFields")
  THEN {resp.body.missingFields[i] : i \in 1..Len(resp.body.missingFields)}
  ELSE IF HasField(resp.body, "error")
          /\ resp.body.error \in InvalidAmountAnswers
  THEN {"amount"}
  ELSE {}

\* C12: a request whose billing country is not in the supported-country list
\* is answered 400 with an error that names the country, and no processor
\* call is made.
C12_UnsupportedCountryRejected ==
  (BillingRequest /\ Unsupported(BillingOf("country"))) =>
    /\ calls = <<>>
    /\ resp.status = 400
    /\ "country" \in ListedFields

\* The countries for which the specification requires a state.
StateCountries == {"US", "CA", "AU", "BR", "CN", "IN"}

\* The rest of the payment form is filled in with valid values.
OtherwiseValid ==
  /\ req.route = CreateRoute
  /\ req.body.amount = Str(<<"5", "7", ".", "4", "8">>)
  /\ req.body.name = Str(<<"Ada">>)
  /\ req.body.zip = Str(<<"00100">>)

\* C13: the state is required exactly when the country is one of US, CA, AU,
\* BR, CN, IN: with such a country and an absent or empty state the request is
\* answered 400 with an error that lists the state, and with any other
\* supported country an absent state alone does not reject the request.
C13_StateRequiredByCountry ==
  /\ (BillingRequest /\ IsStr(BillingOf("country"))
        /\ TokenOf(BillingOf("country")) \in StateCountries
        /\ IsMissing(BillingOf("state"))) =>
       (calls = <<>> /\ resp.status = 400 /\ "state" \in ListedFields)
  /\ (BillingRequest /\ OtherwiseValid /\ IsStr(BillingOf("country"))
        /\ TokenOf(BillingOf("country")) \in
             ALL_COUNTRIES(variant) \ StateCountries
        /\ IsMissing(BillingOf("state"))) =>
       calls # <<>>

\* The required fields of the payment form that the request violates: the
\* missing or empty ones, and the amount when it is not a positive number.
ViolatedFields ==
  {RequiredFields[i][1] : i \in {j \in 1..Len(RequiredFields) :
      IsMissing(RequiredValue(req.body, RequiredFields[j][1]))}}
    \cup (IF \A c \in ConvertedAmounts : NotPositive(c) THEN {"amount"} ELSE {})

\* C14: on the server that validates the payment form, a request that
\* violates one or more field rules is answered by a single 400 that lists
\* exactly the violated fields.
C14_AllViolationsListed ==
  (variant = "part001b" /\ req.route = CreateRoute /\ pc # "idle" /\ Handled
     /\ ViolatedFields # {}) =>
    /\ calls = <<>>
    /\ resp.status = 400
    /\ ListedFields = ViolatedFields

\* A create-payment-intent call of the request has been sent to the processor.
CreateSent ==
  /\ req.route = CreateRoute
  /\ calls # <<>>
  /\ calls[1].op = "paymentIntents.create"

\* C15: every create call that reaches the processor, in every variant,
\* carries an idempotency key: the caller's key when the request supplied
\* one, a synthesized key otherwise.
C15_CreateCarriesKey ==
  CreateSent =>
    /\ IsStr(calls[1].args.idempotencyKey)
    /\ calls[1].args.idempotencyKey.s # <<>>
    /\ (~Falsy(req.body.idempotencyKey) =>
          calls[1].args.idempotencyKey = req.body.idempotencyKey)

\* The request in hand and the i-th suspended one both omitted idempotencyKey
\* and both have their create call, with a synthesized key, pending at the
\* processor.
BothPendingUnkeyed(i) ==
  /\ pc = "await"
  /\ CreateSent
  /\ parked[i].calls[1].op = "paymentIntents.create"
  /\ Falsy(req.body.idempotencyKey)
  /\ Falsy(parked[i].req.body.idempotencyKey)
  /\ IsStr(calls[1].args.idempotencyKey)
  /\ IsStr(parked[i].calls[1].args.idempotencyKey)

\* C16: two payment forms that omit idempotencyKey and are handled
\* concurrently, even within the same millisecond, reach the processor with
\* different synthesized keys.
C16_SynthesizedKeysDiffer ==
  \A i \in 1..Len(parked) :
    BothPendingUnkeyed(i) =>
      calls[1].args.idempotencyKey # parked[i].calls[1].args.idempotencyKey

\* C17: for every request, each processor operation is issued at most once,
\* and after a processor call rejects the handler issues no further call and
\* answers the client with the error.
C17_SingleAttempt ==
  /\ \A i, j \in 1..Len(calls) : calls[i].op = calls[j].op => i = j
  /\ Len(returned) <= Len(calls)
  /\ \A i \in 1..Len(returned) :
       ~returned[i].ok =>
         /\ i = Len(calls)
         /\ Answered
         /\ resp.status = 400
         /\ resp.body.success = FALSE
         /\ HasField(resp.body, "error")

C17_Witness ==
  /\ variant = "part001a"
  /\ Answered
  /\ Len(calls) = 2
  /\ calls[2].op = "paymentIntents.confirm"
  /\ Len(returned) = 2
  /\ returned[1].ok
  /\ ~returned[2].ok
  /\ resp.status = 400


\* A webhook delivery the running server has a route for, answered.
WebhookAnswered ==
  /\ req.route = WebhookRoute /\ HasRoute(variant, WebhookRoute)
  /\ Handled /\ Answered

\* C18: POST /webhook hands the raw request body to signature verification;
\* an event whose signature matches its body is answered {received: true}
\* with a success status whatever its type, and one whose signature does not
\* match is answered 400.
C18_WebhookAcknowledged ==
  WebhookAnswered =>
    /\ BodySeenBy(WebhookParsers) = "raw"
    /\ IF req.signature = "valid"
       THEN resp.status = 200 /\ resp.body = [received |-> TRUE]
       ELSE resp.status = 400


\* The create call of the current request resolved with paymentIntent and
\* the response carries its secret and its id.
CarriesCreated ==
  /\ Len(calls) = 1 /\ calls[1].op = "paymentIntents.create"
  /\ Len(returned) = 1 /\ returned[1].ok
  /\ HasField(resp.body, "clientSecret") /\ HasField(resp.body, "paymentIntentId")
  /\ resp.body.clientSecret = returned[1].value.client_secret
  /\ resp.body.paymentIntentId = returned[1].value.id

\* C19: every response to POST /create-payment-intent is 200 with
\* success:true and the clientSecret and paymentIntentId the processor
\* returned to this request's create call, or 400 with success:false; a 200
\* is never sent when the create call failed or was never made.
C19_CreateAnswers ==
  (req.route = CreateRoute /\ Answered) =>
    \/ resp.status = 200 /\ SaysSuccess(TRUE) /\ CarriesCreated
    \/ /\ resp.status = 400
       /\ SaysSuccess(FALSE)


\* The characters of s before and after its first ".".
WholePart(s) == Split(s, ".")[1]
FractionPart(s) == IF Len(Split(s, ".")) = 1 THEN <<>> ELSE Split(s, ".")[2]

\* s reads as a decimal numeral with at most two fractional digits.
IsDecimal(s) ==
  /\ Len(Split(s, ".")) <= 2
  /\ AllDigits(WholePart(s)) /\ AllDigits(FractionPart(s))
  /\ Len(WholePart(s)) + Len(FractionPart(s)) > 0
  /\ Len(FractionPart(s)) <= 2

\* The amount of the request is a decimal of at most two fractional digits.
DecimalAmount ==
  \/ IsNum(req.body.amount) /\ req.body.amount.e <= 2
  \/ IsStr(req.body.amount) /\ IsDecimal(req.body.amount.s)

\* That amount times 100, an integer.
MinorUnits ==
  LET a == req.body.amount
  IN  IF IsNum(a) THEN a.n * Pow10(2 - a.e)
      ELSE 100 * DigitsToNat(WholePart(a.s))
             + Pow10(2 - Len(FractionPart(a.s))) * DigitsToNat(FractionPart(a.s))

\* The currency codes of the requests, as supplied and in lower case.
LowerCased ==
  {<<<<"u", "s", "d">>, <<"u", "s", "d">>>>, <<<<"U", "S", "D">>, <<"u", "s", "d">>>>,
   <<<<"E", "u", "r">>, <<"e", "u", "r">>>>}

\* C20: the create call sent for a body whose amount is a decimal of at most
\* two fractional digits has that amount times 100 as its amount; its
\* currency is "usd" when the body has none, and the body's currency in
\* lower case otherwise.
C20_MinorUnitsAndCurrency ==
  CreateSent =>
    /\ DecimalAmount => calls[1].args.amount = MinorUnits
    /\ IsUndef(req.body.currency) => calls[1].args.currency = <<"u", "s", "d">>
    /\ ~IsUndef(req.body.currency) =>
         <<req.body.currency.s, calls[1].args.currency>> \in LowerCased

C20_Witness ==
  /\ CreateSent
  /\ req.body.amount = Str(<<"0", ".", "1", "0">>)
  /\ calls[1].args.amount = 10
  /\ req.body.currency = Str(<<"U", "S", "D">>)
  /\ calls[1].args.currency = <<"u", "s", "d">>


\* C24: a POST /create-payment-intent whose body has no amount field is
\* answered 400 'Amount is required' with missingFields containing amount,
\* and no create call reaches the processor.
C24_AbsentAmountRejected ==
  (req.route = CreateRoute /\ Handled /\ pc # "idle"
     /\ IsUndef(req.body.amount)) =>
    /\ calls = <<>>
    /\ resp.status = 400
    /\ HasField(resp.body, "missingFields")
    /\ \E i \in 1..Len(resp.body.missingFields) :
         resp.body.missingFields[i] = "amount"


\* The statuses a confirm endpoint may report as a success.
SuccessStatuses == {"succeeded", "requires_action", "processing"}

\* C25: a confirm endpoint answers success:true only when the status the
\* confirm call returned is succeeded, requires_action or processing.
C25_SuccessOnlyForSuccessStatuses ==
  (Resolved("paymentIntents.confirm") /\ SaysSuccess(TRUE)) =>
    LastReturned.value.status \in SuccessStatuses


\* The confirm call of the current request was issued with a return_url.
ConfirmSentWithReturnUrl ==
  /\ calls # <<>>
  /\ LastCall.op = "paymentIntents.confirm"
  /\ HasField(LastCall.args, "return_url")

\* C27: the return_url of a confirm call is an allowed CORS origin followed
\* by /success; it is never built from a missing Origin header.
C27_ReturnUrlFromAllowedOrigin ==
  ConfirmSentWithReturnUrl =>
    \E origin \in AllowedOrigins(variant) :
      LastCall.args.return_url = <<origin, "/success">>


\* The servers whose POST /confirm-payment takes raw card fields, and those
\* whose confirm route takes a tokenized payment method.
CardMode == req.route = ConfirmRoute /\ variant \in CardVariants
TokenizedMode ==
  \/ req.route = ConfirmRoute /\ variant = "part000"
  \/ req.route = ConfirmIntentRoute /\ variant = "server"

\* C23: in card mode a confirm call is issued only after the request's
\* create-payment-method call returned, and carries the id that call
\* returned; when creating the payment method fails no confirm call is made
\* and the answer is 400.  In tokenized mode the confirm call carries the
\* paymentMethodId of the request.
C23_MethodThenConfirm ==
  /\ CardMode =>
       /\ \A i \in 1..Len(calls) :
            calls[i].op = "paymentIntents.confirm" =>
              /\ i = 2
              /\ calls[1].op = "paymentMethods.create"
              /\ Len(returned) >= 1 /\ returned[1].ok
              /\ calls[2].args.payment_method = Str(<<returned[1].value.id>>)
       /\ (returned # <<>> /\ ~returned[1].ok) =>
            (Len(calls) = 1 /\ Answered /\ resp.status = 400)
  /\ TokenizedMode =>
       \A i \in 1..Len(calls) :
         calls[i].op = "paymentIntents.confirm" =>
           (i = 1 /\ calls[i].args.payment_method = req.body.paymentMethodId)

C23_Witness ==
  /\ CardMode /\ Answered
  /\ Len(calls) = 2 /\ calls[2].op = "paymentIntents.confirm"
  /\ returned[1].ok
  /\ calls[2].args.payment_method = Str(<<returned[1].value.id>>)
  /\ ~IsUndef(req.body.paymentMethodId)
  /\ calls[2].args.payment_method # req.body.paymentMethodId


CardData == {req.body.cardNumber, req.body.cvc, req.body.pin} \ {Undef}

\* C22: no log record written while the current request is handled contains
\* the card number, the CVC or the PIN of its body.
C22_NoCardDataLogged ==
  \A i \in 1..Len(log) : log[i].values \cap CardData = {}


\* The endpoints that call the processor on behalf of a client.
ProcessorRoutes ==
  {CreateRoute, ConfirmRoute, ConfirmIntentRoute, CreateMethodRoute}

\* This step receives a request to such an endpoint of the running server.
ReceivesPayment ==
  /\ pc = "idle" /\ pc' # "idle" /\ Len(parked') = Len(parked)
  /\ req'.route \in ProcessorRoutes
  /\ HasRoute(variant, req'.route)
  /\ CorsAllows(variant, req'.origin) /\ ~req'.malformed

TooManyAnswer == "Too many payment attempts, please try again later."

\* This step answers with the limiter's rejection.
Rejects ==
  /\ pc' = "done" /\ resp'.status = 429
  /\ HasField(resp'.body, "error") /\ resp'.body.error = TooManyAnswer

\* C26: every request to an endpoint that calls the processor passes the
\* payment limiter: the limiter counts it, its handler runs only while the
\* count of the window is at most 10, and it is rejected with 'Too many
\* payment attempts' otherwise.
C26_PaymentsLimited ==
  [][ReceivesPayment =>
       /\ hits' = IF hits <= LimiterMax THEN hits + 1 ELSE hits
       /\ IF hits < LimiterMax THEN ~Rejects ELSE Rejects]_vars
====
